---- MODULE Spec2Model ----
(***************************************************************************)
(* Watermark codec of ethicaldrm (ethicaldrm/video/watermark.py).          *)
(*                                                                         *)
(* The repository holds two copies of the module:                          *)
(*   "kit"  : src/ramijraj-develop-ethical-drm-kit-for-creators/...        *)
(*   "main" : src/ethicaldrm-main/ethicaldrm-main/ramijraj-.../...         *)
(* They share _embed_lsb_watermark and differ in _extract_lsb_watermark's  *)
(* parsing, in embed's loop and in extract_watermark's scan.  The variable *)
(* variant says which copy is running.                                     *)
(*                                                                         *)
(* A Python str is a sequence of code points, a bit string ('0'/'1'        *)
(* characters) a sequence of 0/1, and a frame (numpy array of shape        *)
(* (height, width, 3), dtype uint8) a record with the pixels in row-major  *)
(* order, each pixel a triple of channel values.                           *)
(*                                                                         *)
(* The screen-recorder monitor of the "main" tree                          *)
(* (ethicaldrm/recorder/detect.py) is modelled as well: the thread that    *)
(* calls start_monitoring / stop_monitoring and the threads that run       *)
(* _monitor_loop.                                                          *)
(***************************************************************************)
EXTENDS Integers, Sequences, FiniteSets, TLC

VARIABLES
    variant,            \* "kit" | "main": which copy of watermark.py runs
    stdout_ascii,       \* environment: sys.stdout cannot encode code points >= 128
    frame,              \* the frame handed to the codec call
    watermark_data,     \* the str handed to _embed_lsb_watermark
    watermarked_frame,  \* what _embed_lsb_watermark returned
    extracted,          \* what _extract_lsb_watermark returned (and how far it read)
    payload,            \* the (user_id, signature, frame number) watermark_data was built from
    calls,              \* the codec calls made so far, in order
    self,               \* the Watermarker: user_id, method, strength, watermark_signature
    input,              \* the file at input_path / video_path
    frame_interval,     \* embed's frame_interval
    e_pc,               \* where embed is: "idle", "loop", "after_loop", "returned"
    cap_open,           \* embed's cap is open (created, not released)
    out_open,           \* embed's out is open (created, not released)
    frame_count,        \* embed's frame_count
    watermarked_frames, \* embed's watermarked_frames
    output,             \* the frames written to output_path, in order
    applied,            \* the embedder calls embed made: frame counter, embedder, data
    result,             \* what embed returned
    x_method,           \* extract_watermark's method argument
    x_pc,               \* where extract_watermark is: "idle", "loop", "returned"
    x_cap_open,         \* extract_watermark's cap is open
    x_frame_idx,        \* kit: frame_idx of the for loop; main: frames read so far
    x_examined,         \* positions of the frames given to _extract_lsb_watermark
    x_result,           \* what extract_watermark returned
    x_self,             \* the Watermarker that runs extract_watermark / verify_integrity
    out_file,           \* the file at output_path: whether it exists, the frames it reads back as
    v_pc,               \* where verify_integrity is: "idle", "extract", "returned"
    v_result,           \* what verify_integrity returned
    np_random_state,    \* the state of numpy's process-wide random generator
    monitoring,         \* ScreenRecorderDetector.monitoring
    monitor_thread,     \* ScreenRecorderDetector.monitor_thread: a thread, or 0 for None
    detected_recorders, \* ScreenRecorderDetector.detected_recorders
    on_detection,       \* whether the detector was given an on_detection callback
    callback_arg,       \* the argument of the latest on_detection call
    loop_pc,            \* where each thread is in _monitor_loop
    detected,           \* each thread's local variable detected
    m_pc,               \* where the calling thread is: "idle", "join"
    m_last,             \* the call the calling thread made last: "start", "stop"
    start_result,       \* what the latest start_monitoring returned
    n_calls             \* the calls the calling thread has made

codec_vars == <<variant, stdout_ascii, frame, watermark_data, watermarked_frame,
                extracted, payload, calls>>

embed_vars == <<frame_interval, e_pc, cap_open, out_open, frame_count,
                watermarked_frames, output, applied, result, out_file>>

extract_vars == <<x_method, x_pc, x_cap_open, x_frame_idx, x_examined, x_result,
                  x_self>>

verify_vars == <<v_pc, v_result>>

monitor_vars == <<monitoring, monitor_thread, detected_recorders, on_detection,
                  callback_arg, loop_pc, detected, m_pc, m_last, start_result,
                  n_calls>>

process_vars == <<np_random_state>>

file_vars == <<self, input, embed_vars, extract_vars, verify_vars, process_vars,
               monitor_vars>>

watermark_vars == <<codec_vars, self, input, embed_vars, extract_vars, verify_vars,
                   process_vars>>

vars == <<codec_vars, file_vars>>

-----------------------------------------------------------------------------
(* Bounds of the model *)

\* Identities are all strings over IdChars of at most this length.
MaxIdLen == 2

\* A video file holds at most this many frames.
MaxFrames == 2

\* The calling thread makes at most this many start_monitoring and
\* stop_monitoring calls on the detector.
MaxCalls == 4

-----------------------------------------------------------------------------
(* Python values *)

None == [kind |-> "None"]
Raise(e) == [kind |-> "raise", exc |-> e]

Min(a, b) == IF a < b THEN a ELSE b

\* ':' as a code point
COLON == 58

\* the str 'unknown'
UNKNOWN == <<117, 110, 107, 110, 111, 119, 110>>

\* a & b and a | b on non-negative integers
RECURSIVE bit_and(_, _)
bit_and(a, b) ==
    IF a = 0 \/ b = 0 THEN 0
    ELSE 2 * bit_and(a \div 2, b \div 2)
         + (IF a % 2 = 1 /\ b % 2 = 1 THEN 1 ELSE 0)

RECURSIVE bit_or(_, _)
bit_or(a, b) ==
    IF a = 0 THEN b
    ELSE IF b = 0 THEN a
    ELSE 2 * bit_or(a \div 2, b \div 2)
         + (IF a % 2 = 1 \/ b % 2 = 1 THEN 1 ELSE 0)

\* format(n, 'b'): the binary digits of n, most significant first
RECURSIVE format_b(_)
format_b(n) == IF n < 2 THEN <<n>> ELSE Append(format_b(n \div 2), n % 2)

\* format(n, '08b'): zero-padded to a width of AT LEAST 8 (wider for n > 255)
format_08b(n) ==
    LET d == format_b(n)
    IN  IF Len(d) >= 8 THEN d ELSE [i \in 1..(8 - Len(d)) |-> 0] \o d

\* int(byte, 2)
RECURSIVE int_base2(_)
int_base2(bits) ==
    IF bits = <<>> THEN 0
    ELSE 2 * int_base2(SubSeq(bits, 1, Len(bits) - 1)) + bits[Len(bits)]

\* str(n) / f"{n}" for a non-negative int: decimal digits as code points
RECURSIVE str_int(_)
str_int(n) == IF n < 10 THEN <<48 + n>> ELSE Append(str_int(n \div 10), 48 + (n % 10))

\* s.split(':')
RECURSIVE split_colon(_)
split_colon(s) ==
    IF \A i \in 1..Len(s) : s[i] # COLON THEN <<s>>
    ELSE LET i == CHOOSE j \in 1..Len(s) :
                      s[j] = COLON /\ \A k \in 1..(j - 1) : s[k] # COLON
         IN  <<SubSeq(s, 1, i - 1)>> \o split_colon(SubSeq(s, i + 1, Len(s)))

\* str.isdigit() for code points below 256: '0'..'9' and the superscripts
\* U+00B2, U+00B3, U+00B9; false for the empty str
isdigit(s) ==
    /\ Len(s) > 0
    /\ \A i \in 1..Len(s) : s[i] \in (48..57) \cup {178, 179, 185}

\* s.endswith(suffix)
endswith(s, suffix) ==
    /\ Len(s) >= Len(suffix)
    /\ SubSeq(s, Len(s) - Len(suffix) + 1, Len(s)) = suffix

-----------------------------------------------------------------------------
(* _embed_lsb_watermark (the same code in both copies) *)

\* '1111111111111110'
END_MARKER == <<1, 1, 1, 1, 1, 1, 1, 1, 1, 1, 1, 1, 1, 1, 1, 0>>

\* ''.join(format(ord(char), '08b') for char in watermark_data)
RECURSIVE join_format_08b(_)
join_format_08b(s) ==
    IF s = <<>> THEN <<>>
    ELSE format_08b(s[1]) \o join_format_08b(SubSeq(s, 2, Len(s)))

watermark_binary(data) == join_format_08b(data) \o END_MARKER

\* position of frame[y, x] in px
PixelIndex(f, y, x) == y * f.width + x + 1

\* the channel written by the embedder: pixel[0], watermarked_frame[y, x, 0]
EMBED_CHANNEL_wrong == 1
EMBED_CHANNEL == 0

\* (blue_channel & 0xFE) | int(watermark_binary[data_index])
set_lsb_wrong(blue_channel, bit) == bit_or(bit_and(blue_channel, 240), bit)
set_lsb(blue_channel, bit) == bit_or(bit_and(blue_channel, 254), bit)

\* watermarked_frame[y, x, 0] = blue_channel
write_pixel(wf, y, x, bit) ==
    LET k == PixelIndex(wf, y, x)
        c == EMBED_CHANNEL + 1
    IN  [wf EXCEPT !.px[k][c] = set_lsb(wf.px[k][c], bit)]

\* for x in range(width): write while data_index < len(watermark_binary),
\* else: break.  Gives the frame and data_index as the row leaves them.
RECURSIVE embed_row(_, _, _, _, _)
embed_row(wf, wb, y, x, data_index) ==
    IF x < wf.width /\ data_index < Len(wb)
    THEN embed_row(write_pixel(wf, y, x, wb[data_index + 1]), wb, y, x + 1,
                   data_index + 1)
    ELSE [wf |-> wf, data_index |-> data_index]

\* for y in range(height): <row>; if data_index >= len(watermark_binary): break
RECURSIVE embed_loop(_, _, _, _)
embed_loop(wf, wb, y, data_index) ==
    IF y >= wf.height THEN wf
    ELSE LET row == embed_row(wf, wb, y, 0, data_index)
         IN  IF row.data_index >= Len(wb) THEN row.wf
             ELSE embed_loop(row.wf, wb, y + 1, row.data_index)

embed_lsb_watermark(f, data) == embed_loop(f, watermark_binary(data), 0, 0)

-----------------------------------------------------------------------------
(* _extract_lsb_watermark *)

\* the channel read by the extractor: frame[y, x, 0]
EXTRACT_CHANNEL == 0

\* for i in range(0, len(binary_data), 8): byte = binary_data[i:i+8];
\* if len(byte) == 8: text_data += chr(int(byte, 2))
\* the same loop without the length test: the short last chunk is decoded too
RECURSIVE chunks_to_text_short_chunk(_, _)
chunks_to_text_short_chunk(binary_data, i) ==
    IF i >= Len(binary_data) THEN <<>>
    ELSE LET byte == SubSeq(binary_data, i + 1, Min(i + 8, Len(binary_data)))
         IN  <<int_base2(byte)>> \o chunks_to_text_short_chunk(binary_data, i + 8)

RECURSIVE chunks_to_text(_, _)
chunks_to_text(binary_data, i) ==
    IF i >= Len(binary_data) THEN <<>>
    ELSE LET byte == SubSeq(binary_data, i + 1, Min(i + 8, Len(binary_data)))
         IN  (IF Len(byte) = 8 THEN <<int_base2(byte)>> ELSE <<>>)
             \o chunks_to_text(binary_data, i + 8)

\* kit: the body of the try block; falls through to None
parse_kit(binary_data) ==
    LET text_data == chunks_to_text(binary_data, 0)
        parts == split_colon(text_data)
    IN  IF Len(parts) >= 2
        THEN [kind |-> "dict",
              user_id |-> parts[1],
              signature |-> parts[2],
              frame_number |-> IF Len(parts) > 2 THEN parts[3] ELSE UNKNOWN,
              extracted_text |-> text_data]
        ELSE None

\* print(f"[Extract] Decoded text: '{text_data}'") after each character:
\* UnicodeEncodeError when stdout cannot encode it
print_raises(text_data) ==
    stdout_ascii /\ \E i \in 1..Len(text_data) : text_data[i] >= 128

\* main: the body of the try block; falls through to None
parse_main(binary_data) ==
    LET text_data == chunks_to_text(binary_data, 0)
        parts == split_colon(text_data)
    IN  IF print_raises(text_data) THEN Raise("UnicodeEncodeError")
        ELSE IF Len(parts) = 3
        THEN LET signature == parts[2]
                 frame_num == parts[3]
             IN  IF Len(signature) = 16 /\ isdigit(frame_num)
                 THEN [kind |-> "dict",
                       user_id |-> parts[1],
                       signature |-> signature,
                       frame_number |-> frame_num]
                 ELSE None
        ELSE None

\* try: <body> except: pass, then return None
try_except_missing(body) == body
try_except_pass(body) == IF body.kind = "raise" THEN None ELSE body

\* what happens once binary_data ends with the end marker
on_end_marker(binary_data) ==
    LET stripped == SubSeq(binary_data, 1, Len(binary_data) - 16)
    IN  try_except_pass(IF variant = "kit" THEN parse_kit(stripped)
                        ELSE parse_main(stripped))

\* binary_data.endswith('1111111111111110')
ends_with_marker_short(binary_data) == endswith(binary_data, <<1, 1, 1, 1, 1, 1, 1, 0>>)
ends_with_marker(binary_data) == endswith(binary_data, END_MARKER)

RECURSIVE extract_loop(_, _, _)

\* the return None after the loops
scan_exhausted_decodes(f, binary_data) ==
    [ret |-> try_except_pass(IF variant = "kit" THEN parse_kit(binary_data)
                             ELSE parse_main(binary_data)),
     reads |-> Len(binary_data)]
scan_exhausted(f, binary_data) == [ret |-> None, reads |-> Len(binary_data)]

RECURSIVE extract_row(_, _, _, _)

\* the return at the first end marker, whatever the parse gave
first_marker_continues(f, y, x, binary_data) ==
    LET r == on_end_marker(binary_data)
    IN  IF r.kind = "dict"
        THEN [returned |-> TRUE, ret |-> r, reads |-> Len(binary_data)]
        ELSE extract_row(f, y, x + 1, <<>>)
first_marker(f, y, x, binary_data) ==
    [returned |-> TRUE, ret |-> on_end_marker(binary_data),
     reads |-> Len(binary_data)]

\* for x in range(width): read a bit, return at the end marker.
\* returned says whether the row returned from the function; ret is the value
\* returned, reads the number of pixels read so far (not in the code)
extract_row(f, y, x, binary_data) ==
    IF x >= f.width THEN [returned |-> FALSE, binary_data |-> binary_data]
    ELSE LET blue_channel == f.px[PixelIndex(f, y, x)][EXTRACT_CHANNEL + 1]
             bd == Append(binary_data, bit_and(blue_channel, 1))
         IN  IF ends_with_marker(bd) THEN first_marker(f, y, x, bd)
             ELSE extract_row(f, y, x + 1, bd)

\* for y in range(height): <row>
extract_loop(f, y, binary_data) ==
    IF y >= f.height THEN scan_exhausted(f, binary_data)
    ELSE LET row == extract_row(f, y, 0, binary_data)
         IN  IF row.returned THEN [ret |-> row.ret, reads |-> row.reads]
             ELSE extract_loop(f, y + 1, row.binary_data)

extract_lsb_watermark(f) == extract_loop(f, 0, <<>>)

-----------------------------------------------------------------------------
(* Watermarker.__init__ and _generate_signature *)

\* the str 'lsb'
LSB == <<108, 115, 98>>

\* the str 'motion_blur'
MOTION_BLUR == <<109, 111, 116, 105, 111, 110, 95, 98, 108, 117, 114>>

\* str(strength) for a strength of tenths/10, 0.0 to 1.0
str_float(tenths) == <<48 + (tenths \div 10), 46, 48 + (tenths % 10)>>

\* '0123456789abcdef'
HEXDIGITS == <<48, 49, 50, 51, 52, 53, 54, 55, 56, 57, 97, 98, 99, 100, 101, 102>>

\* hashlib.sha256(b).hexdigest()[:16].  SHA-256 is the library's; what the
\* model keeps of it is that it is a fixed function from strings to 16
\* hexadecimal characters, here a polynomial checksum spread over 16 digits.
RECURSIVE checksum(_, _)
checksum(s, h) ==
    IF s = <<>> THEN h ELSE checksum(Tail(s), ((h * 31) + s[1]) % 65521)

sha256_hexdigest_16(s) ==
    LET h == checksum(s, 7)
    IN  [i \in 1..16 |-> HEXDIGITS[(((h \div i) + i * h) % 16) + 1]]

\* (a signature that also depends on the state of the process)
generate_signature_salted(user_id, method, strength) ==
    sha256_hexdigest_16(user_id \o <<95>> \o method \o <<95>> \o str_float(strength)
                        \o np_random_state.seed)

\* combined = f"{self.user_id}_{self.method}_{self.strength}"
generate_signature(user_id, method, strength) ==
    sha256_hexdigest_16(user_id \o <<95>> \o method \o <<95>> \o str_float(strength))

\* Watermarker(user_id, method, strength)
Watermarker(user_id, method, strength) ==
    [user_id |-> user_id, method |-> method, strength |-> strength,
     watermark_signature |-> generate_signature(user_id, method, strength)]

\* The instance after a call of one of its methods: no method of the class
\* assigns to self.user_id, self.method, self.strength or
\* self.watermark_signature.
instance_after_method_reset(w) == [w EXCEPT !.method = LSB]
instance_after(w) == w

-----------------------------------------------------------------------------
(* _embed_motion_blur_watermark (the same code in both copies) *)

\* int(s, 16) % m, computed digit by digit: the value itself, up to 2^32 - 1,
\* is beyond the integers of the model checker
RECURSIVE int_base16_mod(_, _)
int_base16_mod(s, m) ==
    IF s = <<>> THEN 0
    ELSE LET c == s[Len(s)]
         IN  (16 * int_base16_mod(SubSeq(s, 1, Len(s) - 1), m)
              + (IF c \in 48..57 THEN c - 48 ELSE c - 87)) % m

\* np.random.seed(pattern_seed): the process-wide generator of numpy is
\* re-seeded; its state is from then on a function of the seed, kept here
\* as the eight hexadecimal digits it was read from
np_random_seed(hex) == [seeded |-> TRUE, seed |-> hex]

\* pattern_seed = int(self.watermark_signature[:8], 16), kept modulo 360:
\* the code uses pattern_seed % 180 and (x + y + pattern_seed) % 8 only
seed_modulus == 360
pattern_seed(signature) == int_base16_mod(SubSeq(signature, 1, 8), seed_modulus)

\* The cells [x, y] of the 3x3 kernel set to 1: x = int(i * cos(angle)),
\* y = int(i * sin(angle)) for i = 0, 1, 2 with angle = (seed % 180) degrees,
\* kept when both are in 0..2 (the values of int() tabulated per degree).
kernel_cells(seed) ==
    LET deg == seed % 180
    IN  IF deg = 0 THEN {<<0, 0>>, <<1, 0>>, <<2, 0>>}
        ELSE IF deg <= 30 THEN {<<0, 0>>, <<1, 0>>}
        ELSE IF deg <= 60 THEN {<<0, 0>>, <<1, 1>>}
        ELSE IF deg = 90 THEN {<<0, 0>>, <<0, 1>>, <<0, 2>>}
        ELSE IF deg <= 120 THEN {<<0, 0>>, <<0, 1>>}
        ELSE {<<0, 0>>}

\* the block size and the step between candidate blocks (region_size * 4)
region_size == 16
region_step == 64

\* if (x + y + pattern_seed) % 8 == 0
block_selected(y, x, seed) == (x + y + seed) % 8 = 0

\* cv2's BORDER_REFLECT_101 inside a region of n cells
reflect_101(i, n) == IF i < 0 THEN -i ELSE IF i >= n THEN 2 * n - 2 - i ELSE i

\* The blended value of channel c at row r, column col of the block at
\* (y0, x0): alpha * blurred + (1 - alpha) * region with alpha = strength * 0.1,
\* blurred = cv2.filter2D(region, -1, kernel) (kernel normalised to sum 1,
\* anchored at its centre), then astype(np.uint8).  Exact arithmetic stands
\* for the float32 arithmetic.
blend(f, y0, x0, r, col, c, seed, strength) ==
    LET cells == kernel_cells(seed)
        n == Cardinality(cells)
        src(i, j) == f.px[PixelIndex(f, y0 + reflect_101(i, region_size),
                                        x0 + reflect_101(j, region_size))][c]
        RECURSIVE sum(_)
        sum(S) == IF S = {} THEN 0
                  ELSE LET t == CHOOSE t \in S : TRUE
                       IN  src(r - y0 + t[1] - 1, col - x0 + t[2] - 1)
                           + sum(S \ {t})
        orig == f.px[PixelIndex(f, r, col)][c]
    IN  (strength * sum(cells) + (100 - strength) * n * orig) \div (100 * n)

\* range(0, n - region_size, region_size * 4)
block_origins(n) ==
    {o \in 0..(n - region_size - 1) : o % region_step = 0}

\* the blocks the two loops visit, as (y, x) of their top-left pixel
candidate_blocks(height, width) ==
    {<<y, x>> : y \in block_origins(height), x \in block_origins(width)}

\* the blocks that are blurred
selected_blocks(height, width, seed) ==
    {b \in candidate_blocks(height, width) : block_selected(b[1], b[2], seed)}

\* for y in range(0, height - region_size, region_size * 4): for x in ...
embed_motion_blur_watermark(f, signature, strength) ==
    LET seed == pattern_seed(signature)
        selected == selected_blocks(f.height, f.width, seed)
        in_block(r, col) ==
            <<region_step * (r \div region_step),
              region_step * (col \div region_step)>> \in selected
            /\ r % region_step < region_size
            /\ col % region_step < region_size
    IN  IF selected = {} THEN f
        ELSE [f EXCEPT !.px = [k \in 1..Len(f.px) |->
            LET r == (k - 1) \div f.width
                col == (k - 1) % f.width
            IN  IF in_block(r, col)
                THEN [c \in 1..3 |->
                        blend(f, region_step * (r \div region_step),
                              region_step * (col \div region_step),
                              r, col, c, seed, strength)]
                ELSE f.px[k]]]

-----------------------------------------------------------------------------
(* ScreenRecorderDetector (ethicaldrm/recorder/detect.py): start_monitoring, *)
(* stop_monitoring and _monitor_loop.  One thread calls the detector; each   *)
(* threading.Thread the detector starts runs _monitor_loop.  A step of a     *)
(* thread is one read or write of the detector's attributes.                 *)

\* the threads the detector can have created
Threads == 1..MaxCalls

\* what detect_recording_software may return: lists of process names
Detections == {<<>>, <<"obs">>, <<"obs", "bandicam">>}

\* Thread.is_alive(): started and not yet returned from _monitor_loop
is_alive(t) == loop_pc[t] \in {"while", "detect", "assign", "callback", "sleep"}

\* the threads created so far
created == {t \in Threads : loop_pc[t] # "none"}

\* the detector after __init__, when nothing calls it
MonitorOff ==
    /\ monitoring = FALSE
    /\ monitor_thread = 0
    /\ detected_recorders = <<>>
    /\ on_detection = FALSE
    /\ callback_arg = <<>>
    /\ loop_pc = [t \in Threads |-> "none"]
    /\ detected = [t \in Threads |-> <<>>]
    /\ m_pc = "off"
    /\ m_last = "none"
    /\ start_result = "none"
    /\ n_calls = 0

\* self.monitor_thread.join(timeout=5): whether it may return with the thread alive
join_waits_for_exit == FALSE
join_has_timeout == TRUE

\* start_monitoring(): returns False when monitoring is set; else sets it,
\* creates the thread and starts it; if the start raises, clears the flag
StartMonitoring ==
    /\ m_pc = "idle" /\ n_calls < MaxCalls
    /\ n_calls' = n_calls + 1
    /\ m_last' = "start"
    /\ IF monitoring
       THEN /\ start_result' = "False"
            /\ UNCHANGED <<monitoring, monitor_thread, loop_pc>>
       ELSE \E t \in Threads, started \in BOOLEAN :
               /\ t = Cardinality(created) + 1
               /\ monitor_thread' = t
               /\ monitoring' = started
               /\ loop_pc' = [loop_pc EXCEPT ![t] = IF started THEN "while"
                                                   ELSE "unstarted"]
               /\ start_result' = IF started THEN "True" ELSE "False"
    /\ UNCHANGED <<detected_recorders, on_detection, callback_arg, detected, m_pc>>
    /\ UNCHANGED watermark_vars

\* stop_monitoring() up to the join: self.monitoring = False; if the thread
\* is alive, wait for it
StopMonitoring ==
    /\ m_pc = "idle" /\ n_calls < MaxCalls
    /\ n_calls' = n_calls + 1
    /\ m_last' = "stop"
    /\ monitoring' = FALSE
    /\ m_pc' = IF monitor_thread # 0 /\ is_alive(monitor_thread) THEN "join"
               ELSE "idle"
    /\ UNCHANGED <<monitor_thread, detected_recorders, on_detection, callback_arg,
                   loop_pc, detected, start_result>>
    /\ UNCHANGED watermark_vars

\* join returns because the thread has returned from _monitor_loop
JoinReturns ==
    /\ m_pc = "join" /\ ~is_alive(monitor_thread)
    /\ m_pc' = "idle"
    /\ UNCHANGED <<monitoring, monitor_thread, detected_recorders, on_detection,
                   callback_arg, loop_pc, detected, m_last, start_result, n_calls>>
    /\ UNCHANGED watermark_vars

\* join returns after 5 seconds with the thread still alive
JoinTimesOut ==
    /\ m_pc = "join" /\ is_alive(monitor_thread) /\ join_has_timeout
    /\ m_pc' = "idle"
    /\ UNCHANGED <<monitoring, monitor_thread, detected_recorders, on_detection,
                   callback_arg, loop_pc, detected, m_last, start_result, n_calls>>
    /\ UNCHANGED watermark_vars

\* while self.monitoring:
LoopTest(t) ==
    /\ loop_pc[t] = "while"
    /\ loop_pc' = [loop_pc EXCEPT ![t] = IF monitoring THEN "detect" ELSE "done"]
    /\ UNCHANGED <<monitoring, monitor_thread, detected_recorders, on_detection,
                   callback_arg, detected, m_pc, m_last, start_result, n_calls>>
    /\ UNCHANGED watermark_vars

\* detected = self.detect_recording_software(); if detected: ...
LoopDetect(t) ==
    /\ loop_pc[t] = "detect"
    /\ \E d \in Detections :
          /\ detected' = [detected EXCEPT ![t] = d]
          /\ loop_pc' = [loop_pc EXCEPT ![t] = IF d # <<>> THEN "assign" ELSE "sleep"]
    /\ UNCHANGED <<monitoring, monitor_thread, detected_recorders, on_detection,
                   callback_arg, m_pc, m_last, start_result, n_calls>>
    /\ UNCHANGED watermark_vars

\* self.detected_recorders = detected; if self.on_detection: ...
LoopAssign(t) ==
    /\ loop_pc[t] = "assign"
    /\ detected_recorders' = detected[t]
    /\ loop_pc' = [loop_pc EXCEPT ![t] = IF on_detection THEN "callback" ELSE "sleep"]
    /\ UNCHANGED <<monitoring, monitor_thread, on_detection, callback_arg, detected,
                   m_pc, m_last, start_result, n_calls>>
    /\ UNCHANGED watermark_vars

\* self.on_detection(detected), whose exceptions are logged
LoopCallback(t) ==
    /\ loop_pc[t] = "callback"
    /\ callback_arg' = detected[t]
    /\ loop_pc' = [loop_pc EXCEPT ![t] = "sleep"]
    /\ UNCHANGED <<monitoring, monitor_thread, detected_recorders, on_detection,
                   detected, m_pc, m_last, start_result, n_calls>>
    /\ UNCHANGED watermark_vars

\* time.sleep(self.check_interval) returns
LoopSleep(t) ==
    /\ loop_pc[t] = "sleep"
    /\ loop_pc' = [loop_pc EXCEPT ![t] = "while"]
    /\ UNCHANGED <<monitoring, monitor_thread, detected_recorders, on_detection,
                   callback_arg, detected, m_pc, m_last, start_result, n_calls>>
    /\ UNCHANGED watermark_vars

\* a step of thread t in _monitor_loop
MonitorLoop(t) ==
    LoopTest(t) \/ LoopDetect(t) \/ LoopAssign(t) \/ LoopCallback(t) \/ LoopSleep(t)

-----------------------------------------------------------------------------
(* Inputs of the codec calls *)

\* 'a', ':', U+00FF
IdChars == {97, COLON, 255}

RECURSIVE StringsUpTo(_, _)
StringsUpTo(chars, n) ==
    IF n = 0 THEN {<<>>}
    ELSE LET shorter == StringsUpTo(chars, n - 1)
         IN  shorter \cup {Append(s, c) : s \in shorter, c \in chars}

\* U+20AC (14 binary digits) and U+00FE ('11111110')
Identities == StringsUpTo(IdChars, MaxIdLen) \cup {<<8364>>, <<254>>}

\* 16 hexadecimal characters: '3fa9c01d5e7b2468'
SIG == <<51, 102, 97, 57, 99, 48, 49, 100, 53, 101, 55, 98, 50, 52, 54, 56>>

FrameNumbers == {0, 17}

payload_str(user_id, signature, n) ==
    user_id \o <<COLON>> \o signature \o <<COLON>> \o str_int(n)

\* (height, width) of the frames
Dims == {<<10, 17>>, <<13, 16>>}

\* channel values of an untouched pixel, before its blue LSB is set
BasePixels == {<<0, 0, 0>>, <<255, 254, 129>>}

\* a frame whose blue LSBs start with lsbs and are the base's from there on
MakeFrame(dim, base, lsbs) ==
    [height |-> dim[1], width |-> dim[2],
     px |-> [k \in 1..(dim[1] * dim[2]) |->
                IF k <= Len(lsbs)
                THEN <<(base[1] - (base[1] % 2)) + lsbs[k], base[2], base[3]>>
                ELSE base]]

SIG15 == SubSeq(SIG, 1, 15)

\* texts another embedder (or chance) may have left in a frame's LSBs
ThirdPartyTexts ==
    { <<>>,
      <<97>>,
      <<97, COLON, 98>>,
      payload_str(<<97>>, SIG, 0),
      payload_str(<<97>>, SIG15, 0),
      payload_str(<<97>>, SIG \o <<48>>, 0),
      <<97, COLON>> \o SIG \o <<COLON, 120>>,
      <<97, COLON>> \o SIG \o <<COLON>>,
      <<97, COLON>> \o SIG \o <<COLON, 178>>,
      payload_str(<<97>>, SIG, 0) \o <<COLON, 122>>,
      payload_str(<<255>>, SIG, 0) }

\* the blue LSBs a frame starts with
Contents ==
    { <<>> }
    \cup { join_format_08b(t) \o END_MARKER : t \in ThirdPartyTexts }
    \cup { join_format_08b(<<97>>) \o <<1, 0, 1>> \o END_MARKER,
           join_format_08b(<<97, COLON, 98>>) \o <<1, 0, 1>> \o END_MARKER,
           join_format_08b(payload_str(<<97>>, SIG, 0)) \o <<0, 1, 1, 0, 0>>
               \o END_MARKER,
           join_format_08b(<<97>>) \o END_MARKER
               \o join_format_08b(payload_str(<<98>>, SIG, 0)) \o END_MARKER,
           join_format_08b(payload_str(<<98>>, SIG, 0)) \o END_MARKER
               \o join_format_08b(payload_str(<<97>>, SIG, 0)) \o END_MARKER }

\* untouched frames of every size, and frames that carry something already
Frames ==
    { MakeFrame(d, b, <<>>) : d \in Dims, b \in BasePixels }
    \cup { MakeFrame(<<13, 16>>, <<255, 254, 129>>, c) : c \in Contents }

NoFrame == [height |-> 0, width |-> 0, px |-> <<>>]
NotCalled == [ret |-> [kind |-> "pending"], reads |-> 0]

-----------------------------------------------------------------------------
(* The codec calls: _embed_lsb_watermark on a frame, then                  *)
(* _extract_lsb_watermark on the frame as it then is                        *)

\* no file call is under way
FileOff ==
    /\ MonitorOff
    /\ input = [exists |-> FALSE, openable |-> FALSE, is_image |-> FALSE,
                path_ascii |-> TRUE, frames |-> <<>>]
    /\ frame_interval = 1
    /\ e_pc = "off"
    /\ cap_open = FALSE
    /\ out_open = FALSE
    /\ frame_count = 0
    /\ watermarked_frames = 0
    /\ output = <<>>
    /\ applied = <<>>
    /\ result = [kind |-> "pending"]
    /\ x_method = <<>>
    /\ x_pc = "off"
    /\ x_cap_open = FALSE
    /\ x_frame_idx = 0
    /\ x_examined = <<>>
    /\ x_result = [kind |-> "pending"]
    /\ x_self = self
    /\ out_file = [exists |-> FALSE, frames |-> <<>>]
    /\ v_pc = "off"
    /\ v_result = [kind |-> "pending"]

CodecInit ==
    /\ variant \in {"kit", "main"}
    /\ stdout_ascii \in BOOLEAN
    /\ frame \in Frames
    /\ watermark_data = <<>>
    /\ watermarked_frame = NoFrame
    /\ extracted = NotCalled
    /\ payload = [user_id |-> <<>>, signature |-> <<>>, frame_number |-> <<>>]
    /\ calls = <<>>
    /\ np_random_state = [seeded |-> FALSE, seed |-> <<>>]
    /\ self = Watermarker(<<97>>, LSB, 1)
    /\ FileOff

\* The frame object passed to an embedder, after the call: both embedders
\* work on frame.copy() and return the copy.
frame_after_in_place(f, returned) == returned
frame_after(f, returned) == f

\* _embed_lsb_watermark(frame, watermark_data) on an instance of method 'lsb'
EmbedLsb ==
    /\ calls = <<>>
    /\ self.method = LSB
    /\ \E user_id \in Identities, n \in FrameNumbers :
          /\ payload' = [user_id |-> user_id, signature |-> SIG,
                          frame_number |-> str_int(n)]
          /\ watermark_data' = payload_str(user_id, SIG, n)
          /\ watermarked_frame' = embed_lsb_watermark(frame, watermark_data')
    /\ calls' = Append(calls, "embed")
    /\ frame' = frame_after(frame, watermarked_frame')
    /\ UNCHANGED <<variant, stdout_ascii, extracted>>
    /\ UNCHANGED file_vars

\* _embed_motion_blur_watermark(frame) on an instance of method 'motion_blur'
EmbedMotionBlur ==
    /\ calls = <<>>
    /\ self.method = MOTION_BLUR
    /\ watermarked_frame' = embed_motion_blur_watermark(frame, self.watermark_signature,
                                                       self.strength)
    /\ np_random_state' = np_random_seed(SubSeq(self.watermark_signature, 1, 8))
    /\ calls' = Append(calls, "blur")
    /\ frame' = frame_after(frame, watermarked_frame')
    /\ UNCHANGED <<variant, stdout_ascii, watermark_data, extracted, payload>>
    /\ UNCHANGED <<self, input, embed_vars, extract_vars, verify_vars>>
    /\ UNCHANGED monitor_vars

\* the frame the extractor is given
Embedded == Len(calls) >= 1 /\ calls[1] = "embed"
Blurred == Len(calls) >= 1 /\ calls[1] = "blur"
Current == IF Embedded \/ Blurred THEN watermarked_frame ELSE frame

ExtractLsb ==
    /\ calls \in {<<>>, <<"embed">>, <<"blur">>}
    /\ extracted' = extract_lsb_watermark(Current)
    /\ calls' = Append(calls, "extract")
    /\ UNCHANGED <<variant, stdout_ascii, frame, watermark_data, watermarked_frame,
                   payload>>
    /\ UNCHANGED file_vars

CodecNext == EmbedLsb \/ ExtractLsb

SpecCodec == CodecInit /\ [][CodecNext]_vars

\* 'a', 'b', 'k', 'o', 'r': users whose signatures give pattern seeds of
\* several residues modulo 8 and several kernel angles
BlurUsers == {<<97>>, <<98>>, <<107>>, <<111>>, <<114>>}

\* strengths 0.1 and 1.0, in tenths
Strengths == {1, 10}

\* a frame whose channel values change from pixel to pixel
VariedFrame(height, width) ==
    [height |-> height, width |-> width,
     px |-> [k \in 1..(height * width) |->
                <<(7 * k) % 256, (13 * k + 5) % 256, (k * k) % 256>>]]

\* frames with two candidate blocks, with one, and with none
BlurFrames ==
    { VariedFrame(17, 81), VariedFrame(17, 17),
      MakeFrame(<<17, 17>>, <<255, 254, 129>>, <<>>), VariedFrame(16, 20) }

BlurInit ==
    /\ variant \in {"kit", "main"}
    /\ stdout_ascii = FALSE
    /\ frame \in BlurFrames
    /\ watermark_data = <<>>
    /\ watermarked_frame = NoFrame
    /\ extracted = NotCalled
    /\ payload = [user_id |-> <<>>, signature |-> <<>>, frame_number |-> <<>>]
    /\ calls = <<>>
    /\ np_random_state = [seeded |-> FALSE, seed |-> <<>>]
    /\ self \in {Watermarker(u, MOTION_BLUR, t) : u \in BlurUsers, t \in Strengths}
    /\ FileOff

BlurNext == EmbedMotionBlur \/ ExtractLsb

SpecBlur == BlurInit /\ [][BlurNext]_vars

-----------------------------------------------------------------------------
(* Watermarker.embed *)

\* A lossy encoding followed by decoding (MPEG-4 part 2 behind fourcc 'mp4v',
\* JPEG behind PIL's save to a .jpg path): the colour transform and the
\* quantisation do not keep the low bits of the channel values.  The stand-in
\* rounds every channel value down to a multiple of quant_step.
quant_step == 2

lossy(f) ==
    [f EXCEPT !.px = [k \in 1..Len(f.px) |->
                        [c \in 1..3 |-> f.px[k][c] - (f.px[k][c] % quant_step)]]]

\* what out.write(frame) leaves in the output video, as cap.read() gives it
\* back: kit writes with fourcc 'mp4v', main with 'FFV1' (lossless)
video_codec(f) == IF variant = "kit" THEN lossy(f) ELSE f

\* main, image branch: pil_image.save(output_path) picks the format from the
\* extension of output_path; .png and .bmp keep the pixels, .jpg does not
OutputExtensions == {"png", "jpg"}
image_codec(f, ext) == IF ext = "jpg" THEN lossy(f) ELSE f

\* the dict returned on success (the kit copy adds 'method', 'output_path')
embed_success(total_frames, n_watermarked) ==
    IF variant = "kit"
    THEN [kind |-> "dict", success |-> TRUE, user_id |-> self.user_id,
          signature |-> self.watermark_signature, method |-> self.method,
          total_frames |-> total_frames, watermarked_frames |-> n_watermarked]
    ELSE [kind |-> "dict", success |-> TRUE, user_id |-> self.user_id,
          signature |-> self.watermark_signature,
          total_frames |-> total_frames, watermarked_frames |-> n_watermarked]

\* except Exception as e: return {'success': False, 'error': str(e), 'user_id': ...}
embed_failure(e) ==
    [kind |-> "dict", success |-> FALSE, error |-> e, user_id |-> self.user_id]

\* the except block of embed, for an exception whose message ends with the
\* input path (with_path) or not.  main prints the message before it returns:
\* print raises UnicodeEncodeError when stdout cannot encode the path.
embed_except(e, with_path) ==
    IF variant = "main" /\ with_path /\ stdout_ascii /\ ~input.path_ascii
    THEN Raise("UnicodeEncodeError")
    ELSE embed_failure(e)

\* f"{self.user_id}:{self.watermark_signature}:{frame_count}"
embed_payload(n) == payload_str(self.user_id, self.watermark_signature, n)

\* main: the image branch, for input paths ending in .png, .jpg, .jpeg, .bmp
EmbedImage ==
    /\ e_pc = "idle" /\ x_pc = "idle"
    /\ v_pc = "idle"
    /\ variant = "main" /\ input.is_image
    /\ \E interval \in 0..2 : frame_interval' = interval
    /\ IF ~input.openable
       THEN /\ result' = embed_except("Could not read the image file", TRUE)
            /\ UNCHANGED <<output, applied, out_file>>
       ELSE /\ output' = <<embed_lsb_watermark(input.frames[1], embed_payload(0))>>
            /\ applied' = <<[k |-> 0, embedder |-> "lsb", data |-> embed_payload(0)]>>
            /\ \E ext \in OutputExtensions :
                  out_file' = [exists |-> TRUE,
                               frames |-> <<image_codec(output'[1], ext)>>]
            /\ result' = embed_success(1, 1)
    /\ e_pc' = "returned"
    /\ UNCHANGED <<cap_open, out_open, frame_count, watermarked_frames>>
    /\ self' = instance_after(self)
    /\ UNCHANGED <<codec_vars, input, extract_vars, verify_vars, process_vars>>
    /\ UNCHANGED monitor_vars

\* cap = cv2.VideoCapture(input_path) ... out = cv2.VideoWriter(...)
EmbedOpen ==
    /\ e_pc = "idle" /\ x_pc = "idle"
    /\ v_pc = "idle"
    /\ ~(variant = "main" /\ input.is_image)
    /\ \E interval \in 0..2 : frame_interval' = interval
    /\ IF ~input.openable
       THEN /\ result' = embed_except("Cannot open video file", TRUE)
            /\ e_pc' = "returned"
            /\ UNCHANGED <<cap_open, out_open, out_file>>
       ELSE /\ cap_open' = TRUE
            /\ out_open' = TRUE
            /\ out_file' = [exists |-> TRUE, frames |-> <<>>]
            /\ e_pc' = "loop"
            /\ UNCHANGED result
    /\ frame_count' = 0
    /\ watermarked_frames' = 0
    /\ UNCHANGED <<output, applied>>
    /\ self' = instance_after(self)
    /\ UNCHANGED <<codec_vars, input, extract_vars, verify_vars, process_vars>>
    /\ UNCHANGED monitor_vars

\* kit: the frame to write and the embedder used, if any, for frame_count
kit_process(f) ==
    IF frame_count % frame_interval = 0
    THEN IF self.method = LSB
         THEN [frame |-> embed_lsb_watermark(f, embed_payload(frame_count)),
               calls |-> <<[k |-> frame_count, embedder |-> "lsb",
                            data |-> embed_payload(frame_count)]>>,
               counted |-> 1]
         ELSE IF self.method = MOTION_BLUR
         THEN [frame |-> embed_motion_blur_watermark(f, self.watermark_signature,
                                                     self.strength),
               calls |-> <<[k |-> frame_count, embedder |-> "motion_blur",
                            data |-> <<>>]>>,
               counted |-> 1]
         ELSE [frame |-> f, calls |-> <<>>, counted |-> 1]
    ELSE [frame |-> f, calls |-> <<>>, counted |-> 0]

\* main: the same, whatever self.method is
main_process(f) ==
    IF frame_count % frame_interval = 0
    THEN [frame |-> embed_lsb_watermark(f, embed_payload(frame_count)),
          calls |-> <<[k |-> frame_count, embedder |-> "lsb",
                       data |-> embed_payload(frame_count)]>>,
          counted |-> 1]
    ELSE [frame |-> f, calls |-> <<>>, counted |-> 0]

\* one pass of while True: ret, frame = cap.read() ...
EmbedFrame ==
    /\ e_pc = "loop"
    /\ IF frame_count >= Len(input.frames)
       THEN \* if not ret: break
            /\ IF variant = "kit"
               THEN e_pc' = "after_loop" /\ UNCHANGED result
               ELSE \* main: nothing follows the loop; embed returns None
                    e_pc' = "returned" /\ result' = None
            /\ UNCHANGED <<cap_open, out_open, frame_count, watermarked_frames,
                           output, applied, out_file, np_random_state>>
       ELSE IF frame_interval = 0
       THEN \* frame_count % frame_interval raises ZeroDivisionError
            /\ result' = embed_except("integer division or modulo by zero", FALSE)
            /\ e_pc' = "returned"
            /\ UNCHANGED <<cap_open, out_open, frame_count, watermarked_frames,
                           output, applied, out_file, np_random_state>>
       ELSE LET f == input.frames[frame_count + 1]
                p == IF variant = "kit" THEN kit_process(f) ELSE main_process(f)
            IN  /\ output' = Append(output, p.frame)
                /\ out_file' = [out_file EXCEPT
                                  !.frames = Append(@, video_codec(p.frame))]
                /\ applied' = applied \o p.calls
                /\ np_random_state' =
                      IF \E j \in 1..Len(p.calls) : p.calls[j].embedder = "motion_blur"
                      THEN np_random_seed(SubSeq(self.watermark_signature, 1, 8))
                      ELSE np_random_state
                /\ watermarked_frames' = watermarked_frames + p.counted
                /\ frame_count' = frame_count + 1
                /\ IF variant = "kit"
                   THEN UNCHANGED <<e_pc, cap_open, out_open, result>>
                   ELSE \* main: release and return inside the loop
                        /\ cap_open' = FALSE
                        /\ out_open' = FALSE
                        /\ result' = embed_success(frame_count',
                                                   watermarked_frames')
                        /\ e_pc' = "returned"
    /\ UNCHANGED <<frame_interval>>
    /\ self' = instance_after(self)
    /\ UNCHANGED <<codec_vars, input, extract_vars, verify_vars>>
    /\ UNCHANGED monitor_vars

\* kit: cap.release(); out.release(); return result
EmbedFinish ==
    /\ e_pc = "after_loop"
    /\ cap_open' = FALSE
    /\ out_open' = FALSE
    /\ result' = embed_success(frame_count, watermarked_frames)
    /\ e_pc' = "returned"
    /\ UNCHANGED <<frame_interval, frame_count, watermarked_frames, output, applied,
                   out_file>>
    /\ self' = instance_after(self)
    /\ UNCHANGED <<codec_vars, input, extract_vars, verify_vars, process_vars>>
    /\ UNCHANGED monitor_vars

-----------------------------------------------------------------------------
(* Watermarker.extract_watermark *)

\* the frames sampled (kit) and the sampling step
max_samples == 100
sample_step == 30

\* extraction_method = method or self.method
extraction_method == IF x_method = <<>> THEN x_self.method ELSE x_method

\* The file at video_path: the file embed wrote when an embed call has
\* returned, the input file otherwise.
video_file ==
    IF e_pc = "returned"
    THEN [exists |-> out_file.exists, openable |-> out_file.exists,
          frames |-> out_file.frames]
    ELSE [exists |-> input.exists, openable |-> input.openable,
          frames |-> input.frames]

\* the Watermarkers that read a file: the one at hand and, for a file that
\* embed wrote, Watermarker('a') and Watermarker('b') as well
Readers ==
    IF e_pc = "returned"
    THEN {self} \cup {Watermarker(u, LSB, 1) : u \in {<<97>>, <<98>>}}
    ELSE {self}

\* except Exception as e: ... return None
except_exception(r) == IF r.kind = "raise" THEN None ELSE r

\* cap = cv2.VideoCapture(video_path); if not cap.isOpened(): return None
extract_open(who, m) ==
    /\ x_self' = who
    /\ x_method' = m
    /\ IF ~video_file.openable
       THEN x_pc' = "returned" /\ x_result' = None /\ UNCHANGED x_cap_open
       ELSE x_pc' = "loop" /\ x_cap_open' = TRUE /\ UNCHANGED x_result
    /\ UNCHANGED <<x_frame_idx, x_examined>>

\* a call of extract_watermark(video_path, method)
ExtractOpen ==
    /\ x_pc = "idle" /\ v_pc = "idle" /\ e_pc \in {"idle", "returned"}
    /\ \E who \in Readers, m \in {<<>>, LSB, MOTION_BLUR} : extract_open(who, m)
    /\ self' = instance_after(self)
    /\ UNCHANGED <<codec_vars, input, embed_vars, verify_vars, process_vars>>
    /\ UNCHANGED monitor_vars

\* the frame position read in this pass of the loop
x_position == IF variant = "kit" THEN x_frame_idx * sample_step ELSE x_frame_idx

\* kit: if extracted: ...   main: if extracted and extracted.get('user_id'): ...
x_accepts(e) ==
    /\ e.kind = "dict"
    /\ variant = "main" => e.user_id # <<>>

\* if extraction_method == "lsb": the only method with an extractor
has_extractor_any(m) == TRUE
has_extractor(m) == m = LSB

\* one pass of the loop over the frames
ExtractFrame ==
    /\ x_pc = "loop"
    /\ IF \/ x_position >= Len(video_file.frames)
          \/ variant = "kit"
             /\ x_frame_idx >= Min(max_samples, Len(video_file.frames))
       THEN \* the range is used up, or if not ret: break; cap.release(); return None
            /\ x_cap_open' = FALSE
            /\ x_result' = None
            /\ x_pc' = "returned"
            /\ UNCHANGED <<x_frame_idx, x_examined>>
       ELSE IF ~has_extractor(extraction_method)
       THEN /\ x_frame_idx' = x_frame_idx + 1
            /\ UNCHANGED <<x_pc, x_cap_open, x_examined, x_result>>
       ELSE LET e == extract_lsb_watermark(video_file.frames[x_position + 1]).ret
            IN  /\ x_examined' = Append(x_examined, x_position)
                /\ IF e.kind = "raise"
                   THEN /\ x_result' = except_exception(e)
                        /\ x_pc' = "returned"
                        /\ UNCHANGED <<x_cap_open, x_frame_idx>>
                   ELSE IF x_accepts(e)
                   THEN /\ x_cap_open' = FALSE
                        /\ x_result' = e
                        /\ x_pc' = "returned"
                        /\ UNCHANGED x_frame_idx
                   ELSE /\ x_frame_idx' = x_frame_idx + 1
                        /\ UNCHANGED <<x_pc, x_cap_open, x_result>>
    /\ UNCHANGED <<x_method, x_self>>
    /\ self' = instance_after(self)
    /\ UNCHANGED <<codec_vars, input, embed_vars, verify_vars, process_vars>>
    /\ UNCHANGED monitor_vars

-----------------------------------------------------------------------------
(* Watermarker.verify_integrity *)

\* the result dict; the scores 0.0, 0.5 and 1.0 are kept in tenths
verify_result(file_exists, watermark_found, user_verified, integrity_score) ==
    [kind |-> "dict", file_exists |-> file_exists,
     watermark_found |-> watermark_found, user_verified |-> user_verified,
     integrity_score |-> integrity_score]

\* if not result['file_exists']: return result
verify_missing_calls_extract == FALSE
verify_missing_returns == TRUE

\* result = {'file_exists': os.path.exists(video_path), ...}, then the
\* call watermark_data = self.extract_watermark(video_path)
VerifyStart ==
    /\ v_pc = "idle" /\ x_pc = "idle" /\ e_pc \in {"idle", "returned"}
    /\ \E who \in Readers :
          IF ~video_file.exists /\ verify_missing_returns
          THEN /\ v_result' = verify_result(FALSE, FALSE, FALSE, 0)
               /\ v_pc' = "returned"
               /\ x_self' = who
               /\ UNCHANGED <<x_method, x_pc, x_cap_open, x_frame_idx, x_examined,
                              x_result>>
          ELSE /\ v_pc' = "extract"
               /\ extract_open(who, <<>>)
               /\ UNCHANGED v_result
    /\ self' = instance_after(self)
    /\ UNCHANGED <<codec_vars, input, embed_vars, process_vars>>
    /\ UNCHANGED monitor_vars

\* the score of a watermark that names another user
score_other_user_zero == 0
score_other_user == 5

\* if watermark_data: ... return result
verify_fill(wm) ==
    IF wm.kind = "dict"
    THEN LET user_verified == wm.user_id = x_self.user_id
         IN  verify_result(video_file.exists, TRUE, user_verified,
                           IF user_verified THEN 10 ELSE score_other_user)
    ELSE verify_result(video_file.exists, FALSE, FALSE, 0)

VerifyFinish ==
    /\ v_pc = "extract" /\ x_pc = "returned"
    /\ v_result' = verify_fill(x_result)
    /\ v_pc' = "returned"
    /\ self' = instance_after(self)
    /\ UNCHANGED <<codec_vars, input, embed_vars, extract_vars, process_vars>>
    /\ UNCHANGED monitor_vars

-----------------------------------------------------------------------------
(* Inputs of the file calls *)

\* the two methods the class documents, and 'dct', which it accepts as well
Methods == {LSB, MOTION_BLUR, <<100, 99, 116>>}

\* 'a'
FileUsers == {<<97>>}

\* an untouched frame, a frame that carries the payload of user 'a', and a
\* frame whose low bits decode to text outside ASCII
FileFrames ==
    { MakeFrame(<<13, 16>>, <<255, 254, 129>>, <<>>),
      MakeFrame(<<13, 16>>, <<255, 254, 129>>,
                watermark_binary(payload_str(<<97>>, SIG, 0))),
      MakeFrame(<<13, 16>>, <<255, 254, 129>>,
                watermark_binary(<<233, COLON, 98>>)) }

RECURSIVE VideosUpTo(_)
VideosUpTo(n) ==
    IF n = 0 THEN {<<>>}
    ELSE LET shorter == VideosUpTo(n - 1)
         IN  shorter \cup {Append(v, f) : v \in shorter, f \in FileFrames}

\* a video of one frame more than extract_watermark of the kit copy samples,
\* of frames of one pixel
LongVideo == [i \in 1..(max_samples + 1) |-> MakeFrame(<<1, 1>>, <<255, 254, 129>>, <<>>)]

\* the file at the input path: a video of up to MaxFrames frames, an image
\* (one frame), or a path with no file or with a file that cannot be opened;
\* path_ascii: the path is made of ASCII characters
InputFiles ==
    { [exists |-> e, openable |-> FALSE, is_image |-> i, path_ascii |-> a,
       frames |-> <<>>] : e \in BOOLEAN, i \in BOOLEAN, a \in BOOLEAN }
    \cup { [exists |-> TRUE, openable |-> TRUE, is_image |-> FALSE,
            path_ascii |-> TRUE, frames |-> v] : v \in VideosUpTo(MaxFrames) }
    \cup { [exists |-> TRUE, openable |-> TRUE, is_image |-> TRUE,
            path_ascii |-> TRUE, frames |-> <<f>>] : f \in FileFrames }
    \cup { [exists |-> TRUE, openable |-> TRUE, is_image |-> FALSE,
            path_ascii |-> TRUE, frames |-> LongVideo] }

NoResult == [kind |-> "pending"]

FileIdle(pc) ==
    /\ frame_interval = 1
    /\ e_pc = pc
    /\ cap_open = FALSE
    /\ out_open = FALSE
    /\ frame_count = 0
    /\ watermarked_frames = 0
    /\ output = <<>>
    /\ applied = <<>>
    /\ result = NoResult
    /\ x_method = <<>>
    /\ x_pc = pc
    /\ x_cap_open = FALSE
    /\ x_frame_idx = 0
    /\ x_examined = <<>>
    /\ x_result = NoResult
    /\ x_self = self
    /\ out_file = [exists |-> FALSE, frames |-> <<>>]
    /\ v_pc = pc
    /\ v_result = NoResult

\* (the kit copy prints nothing: its stdout is left out of the choice)
FileInit ==
    /\ variant \in {"kit", "main"}
    /\ stdout_ascii \in (IF variant = "kit" THEN {FALSE} ELSE BOOLEAN)
    /\ np_random_state = [seeded |-> FALSE, seed |-> <<>>]
    /\ self \in {Watermarker(u, m, 1) : u \in FileUsers, m \in Methods}
    /\ input \in InputFiles
    /\ FileIdle("idle")
    /\ MonitorOff
    /\ frame = NoFrame
    /\ watermark_data = <<>>
    /\ watermarked_frame = NoFrame
    /\ extracted = NotCalled
    /\ payload = [user_id |-> <<>>, signature |-> <<>>, frame_number |-> <<>>]
    /\ calls = <<"file">>

FileNext == EmbedImage \/ EmbedOpen \/ EmbedFrame \/ EmbedFinish
            \/ ExtractOpen \/ ExtractFrame \/ VerifyStart \/ VerifyFinish

SpecFile == FileInit /\ [][FileNext]_vars

\* a detector built with or without a callback; no Watermarker call is made
MonitorInit ==
    /\ variant = "main"
    /\ stdout_ascii = FALSE
    /\ frame = NoFrame
    /\ watermark_data = <<>>
    /\ watermarked_frame = NoFrame
    /\ extracted = NotCalled
    /\ payload = [user_id |-> <<>>, signature |-> <<>>, frame_number |-> <<>>]
    /\ calls = <<"detector">>
    /\ np_random_state = [seeded |-> FALSE, seed |-> <<>>]
    /\ self = Watermarker(<<97>>, LSB, 1)
    /\ input = [exists |-> FALSE, openable |-> FALSE, is_image |-> FALSE,
                path_ascii |-> TRUE, frames |-> <<>>]
    /\ FileIdle("off")
    /\ monitoring = FALSE
    /\ monitor_thread = 0
    /\ detected_recorders = <<>>
    /\ on_detection \in BOOLEAN
    /\ callback_arg = <<>>
    /\ loop_pc = [t \in Threads |-> "none"]
    /\ detected = [t \in Threads |-> <<>>]
    /\ m_pc = "idle"
    /\ m_last = "none"
    /\ start_result = "none"
    /\ n_calls = 0

MonitorNext ==
    \/ StartMonitoring
    \/ StopMonitoring
    \/ JoinReturns
    \/ JoinTimesOut
    \/ \E t \in Threads : LoopTest(t)
    \/ \E t \in Threads : LoopDetect(t)
    \/ \E t \in Threads : LoopAssign(t)
    \/ \E t \in Threads : LoopCallback(t)
    \/ \E t \in Threads : LoopSleep(t)

SpecMonitor == MonitorInit /\ [][MonitorNext]_vars

\* every started thread is scheduled again and again; detect_recording_software,
\* the callback and time.sleep return
SpecMonitorFair == SpecMonitor /\ \A t \in Threads : WF_vars(MonitorLoop(t))

\* codec calls on a frame, file calls on a Watermarker, or calls on a detector
Init == CodecInit \/ BlurInit \/ FileInit \/ MonitorInit

Next == CodecNext \/ BlurNext \/ FileNext \/ MonitorNext

Spec == Init /\ [][Next]_vars

-----------------------------------------------------------------------------
(* What the claims speak of *)

\* the blue least-significant bits of a frame, in row-major order
LSBs(f) == [k \in 1..Len(f.px) |-> f.px[k][1] % 2]

\* where the first occurrence of the end marker ends in bits; 0 when there is none
FirstMarkerEnd(bits) ==
    LET ends == {n \in 16..Len(bits) : SubSeq(bits, n - 15, n) = END_MARKER}
    IN  IF ends = {} THEN 0 ELSE CHOOSE n \in ends : \A m \in ends : n <= m

\* the text in front of the first end marker
TextBefore(bits) == chunks_to_text(SubSeq(bits, 1, FirstMarkerEnd(bits) - 16), 0)

\* '0'..'9' only, and at least one
IsDecimal(s) == Len(s) > 0 /\ \A i \in 1..Len(s) : s[i] \in 48..57

\* exactly 3 parts, a 16-character middle part, a decimal third part
WellFormed(text) ==
    LET parts == split_colon(text)
    IN  Len(parts) = 3 /\ Len(parts[2]) = 16 /\ IsDecimal(parts[3])

Extracted == Len(calls) >= 1 /\ calls[Len(calls)] = "extract"
Pixels == Len(frame.px)
Abs(n) == IF n < 0 THEN -n ELSE n

\* C1 (as stated): after _embed_lsb_watermark of "I:S:N" into a frame of at
\* least 8*len("I:S:N")+16 pixels, _extract_lsb_watermark returns user_id I,
\* signature S and frame_number N, for every identity string I.
C1_RoundTripAnyIdentity ==
    (Embedded /\ Extracted /\ Pixels >= 8 * Len(watermark_data) + 16)
    => /\ extracted.ret.kind = "dict"
       /\ extracted.ret.user_id = payload.user_id
       /\ extracted.ret.signature = payload.signature
       /\ extracted.ret.frame_number = payload.frame_number

\* C2 (as stated): when the extractor matches the end marker it returns a
\* payload only if the decoded text has exactly 3 ':'-separated parts, a
\* 16-character middle part and a decimal third part; otherwise None.
C2_DecodeValidation ==
    (Extracted /\ FirstMarkerEnd(LSBs(Current)) > 0)
    => /\ extracted.ret.kind = "dict" => WellFormed(TextBefore(LSBs(Current)))
       /\ ~WellFormed(TextBefore(LSBs(Current))) => extracted.ret = None

\* C3: extraction never raises.  Whatever the least-significant bits of the
\* frame hold, a finished _extract_lsb_watermark has returned None or a
\* payload, and a finished extract_watermark has returned None or a payload;
\* neither has ended with an exception.
C3_ExtractionNeverRaises ==
    /\ Extracted => extracted.ret.kind \in {"None", "dict"}
    /\ x_pc = "returned" => x_result.kind \in {"None", "dict"}

\* main, on a stdout that cannot encode the decoded text: the print inside
\* the try raised, and the extractor still returned None
C3_Witness ==
    LET bits == LSBs(Current)
    IN  /\ Extracted /\ variant = "main" /\ stdout_ascii
        /\ FirstMarkerEnd(bits) > 0
        /\ \E i \in 1..Len(TextBefore(bits)) : TextBefore(bits)[i] >= 128
        /\ extracted.ret = None

\* C4: every channel value of every pixel of the frame _embed_lsb_watermark
\* returns differs from the input frame's by at most 1.
C4_MinimalPerturbation ==
    Embedded
    => /\ Len(watermarked_frame.px) = Pixels
       /\ \A k \in 1..Pixels : \A c \in 1..3 :
             Abs(watermarked_frame.px[k][c] - frame.px[k][c]) <= 1

\* a blue value went up by one and another went down by one
C4_Witness ==
    /\ Embedded
    /\ \E k \in 1..Pixels : watermarked_frame.px[k][1] = frame.px[k][1] + 1
    /\ \E k \in 1..Pixels : watermarked_frame.px[k][1] = frame.px[k][1] - 1

\* C5: _embed_lsb_watermark changes nothing but the least-significant bit of
\* channel 0 of the first min(L, height*width) pixels in row-major order, L
\* the length of the bit stream: the other channels, the upper seven bits of
\* channel 0, the pixels from index L on and the dimensions are as they were.
C5_EmbedFrame ==
    Embedded
    => LET L == Len(watermark_binary(watermark_data))
       IN  /\ watermarked_frame.height = frame.height
           /\ watermarked_frame.width = frame.width
           /\ Len(watermarked_frame.px) = Pixels
           /\ \A k \in 1..Pixels :
                 /\ watermarked_frame.px[k][2] = frame.px[k][2]
                 /\ watermarked_frame.px[k][3] = frame.px[k][3]
                 /\ watermarked_frame.px[k][1] \div 2 = frame.px[k][1] \div 2
                 /\ k > L => watermarked_frame.px[k] = frame.px[k]

\* the embedder changed a pixel, and left pixels behind the bit stream
C5_Witness ==
    /\ Embedded
    /\ Len(watermark_binary(watermark_data)) < Pixels
    /\ \E k \in 1..Pixels : watermarked_frame.px[k] # frame.px[k]
    /\ frame.px[Pixels][1] % 2 = 1

\* C6: with fewer pixels than bits, _embed_lsb_watermark returns a frame that
\* holds exactly the bits that fit, and _extract_lsb_watermark of that frame
\* never returns a payload whose user_id is the identity embedded.
C6_CapacityBoundary ==
    LET wb == watermark_binary(watermark_data)
    IN  (Embedded /\ Pixels < Len(wb))
        => /\ LSBs(watermarked_frame) = SubSeq(wb, 1, Pixels)
           /\ Extracted => ~(/\ extracted.ret.kind = "dict"
                             /\ extracted.ret.user_id = payload.user_id)

\* a frame too small for a non-empty identity was embedded and extracted from
C6_Witness ==
    /\ Embedded /\ Extracted
    /\ Pixels < Len(watermark_binary(watermark_data))
    /\ Len(payload.user_id) > 0
    /\ extracted.ret = None

\* C7: on a frame whose blue LSBs hold no end marker, _extract_lsb_watermark
\* reads every pixel and returns None.
C7_Absence ==
    (Extracted /\ FirstMarkerEnd(LSBs(Current)) = 0)
    => /\ extracted.ret = None
       /\ extracted.reads = Len(Current.px)

\* extraction from a frame that holds the start of a payload but no end marker
C7_Witness ==
    /\ Embedded /\ Extracted
    /\ FirstMarkerEnd(LSBs(Current)) = 0
    /\ Len(Current.px) > 16
    /\ extracted.reads = Len(Current.px)

\* f with the blue LSB of every pixel after index m inverted
FlipAfter(f, m) ==
    [f EXCEPT !.px = [k \in 1..Len(f.px) |->
        IF k <= m THEN f.px[k]
        ELSE <<f.px[k][1] + 1 - 2 * (f.px[k][1] % 2), f.px[k][2], f.px[k][3]>>]]

\* C8: _extract_lsb_watermark stops at the first end marker: it reads no pixel
\* behind it, what it returns is the payload in front of it or None (None when
\* the text there has fewer than two parts, whatever follows), and the result
\* does not depend on the pixels behind the first end marker.
C8_OneCandidate ==
    LET bits == LSBs(Current)
        m == FirstMarkerEnd(bits)
    IN  (Extracted /\ m > 0)
        => /\ extracted.reads = m
           /\ extracted.ret.kind \in {"dict", "None"}
           /\ extracted.ret.kind = "dict"
                 => extracted.ret.user_id = split_colon(TextBefore(bits))[1]
           /\ Len(split_colon(TextBefore(bits))) < 2 => extracted.ret = None
           /\ extract_lsb_watermark(FlipAfter(Current, m)) = extracted

\* None was returned for the text 'a' in front of the first end marker, with
\* a well-formed payload and its end marker behind it
C8_Witness ==
    LET bits == LSBs(Current)
        m == FirstMarkerEnd(bits)
        rest == SubSeq(bits, m + 1, Len(bits))
    IN  /\ Extracted /\ m > 0
        /\ TextBefore(bits) = <<97>>
        /\ FirstMarkerEnd(rest) > 0
        /\ WellFormed(TextBefore(rest))
        /\ extracted.ret = None

\* the frame counters embed hands to an embedder: every k below n with
\* k mod frame_interval = 0, in order
RECURSIVE Scheduled(_)
Scheduled(n) ==
    IF n = 0 THEN <<>>
    ELSE IF (n - 1) % frame_interval = 0
         THEN Append(Scheduled(n - 1), n - 1)
         ELSE Scheduled(n - 1)

\* embed has returned from an input that opens, called with an interval >= 1
EmbedReturned == e_pc = "returned" /\ input.openable /\ frame_interval >= 1

\* C9 (as stated): for an input of N frames that opens, embed returns only
\* after all N frames were read and written and the reader and the writer
\* were released, and its result is a success with total_frames = N.
C9_WholeSequence ==
    EmbedReturned
    => /\ Len(output) = Len(input.frames)
       /\ ~cap_open /\ ~out_open
       /\ result.kind = "dict" /\ result.success
       /\ result.total_frames = Len(input.frames)

\* C10 (as stated): with an interval i >= 1, embed applies the configured
\* embedder (the perceptual one for method 'motion_blur', LSB otherwise) to
\* the frame with counter k exactly when k mod i = 0, the LSB payload of frame
\* k is "user_id:signature:k", and watermarked_frames in the result is the
\* number of frames an embedder was applied to.
C10_IntervalScheduling ==
    EmbedReturned
    => LET ks == Scheduled(Len(input.frames))
       IN  /\ Len(applied) = Len(ks)
           /\ \A j \in 1..Len(applied) :
                 /\ j <= Len(ks) => applied[j].k = ks[j]
                 /\ IF self.method = MOTION_BLUR
                    THEN applied[j].embedder = "motion_blur"
                    ELSE /\ applied[j].embedder = "lsb"
                         /\ applied[j].data
                              = payload_str(self.user_id, self.watermark_signature,
                                            applied[j].k)
           /\ result.kind = "dict" /\ result.success
           /\ result.watermarked_frames = Len(applied)

\* C11 (as stated): embed writes one output frame per input frame, in the
\* order read; a frame whose counter k has k mod interval # 0 is written with
\* the pixel values that were read; the counter goes up by one per frame.
C11_PassThroughAndOrder ==
    EmbedReturned
    => /\ Len(output) = Len(input.frames)
       /\ \A k \in 0..(Len(output) - 1) :
             /\ k < Len(input.frames)
             /\ output[k + 1].height = input.frames[k + 1].height
             /\ output[k + 1].width = input.frames[k + 1].width
             /\ k % frame_interval # 0 => output[k + 1] = input.frames[k + 1]
       /\ ~(variant = "main" /\ input.is_image)
            => frame_count = Len(input.frames)

\* C12 (as stated): when the input is missing or cannot be opened, embed
\* raises nothing and returns success = False with an error message and the
\* user_id, and nothing was written to the output.
C12_InputFailure ==
    (e_pc = "returned" /\ ~input.openable)
    => /\ result.kind = "dict"
       /\ ~result.success
       /\ result.error # ""
       /\ result.user_id = self.user_id
       /\ output = <<>>

\* embed has returned a success, and the file read next is the one it wrote
EmbedSucceeded == e_pc = "returned" /\ result.kind = "dict" /\ result.success

\* C13 (as stated): after a successful embed by identity U, verify_integrity
\* of the output by a Watermarker of identity V returns file_exists and
\* watermark_found True, user_verified = (U = V), and integrity_score 1.0 when
\* U = V and 0.5 otherwise.
C13_VerifyEmbedded ==
    (EmbedSucceeded /\ v_pc = "returned")
    => LET same == self.user_id = x_self.user_id
       IN  /\ v_result.file_exists
           /\ v_result.watermark_found
           /\ v_result.user_verified = same
           /\ v_result.integrity_score = (IF same THEN 10 ELSE 5)

\* C14: every result of verify_integrity has integrity_score in {0.0, 0.5,
\* 1.0}, user_verified implies watermark_found implies file_exists, the score
\* is 1.0 exactly when user_verified, 0.5 exactly when a watermark of another
\* user was found, and 0.0 exactly when no watermark was found.
C14_VerifyShape ==
    v_pc = "returned"
    => /\ v_result.integrity_score \in {0, 5, 10}
       /\ v_result.user_verified => v_result.watermark_found
       /\ v_result.watermark_found => v_result.file_exists
       /\ v_result.integrity_score = 10 <=> v_result.user_verified
       /\ v_result.integrity_score = 5
            <=> (v_result.watermark_found /\ ~v_result.user_verified)
       /\ v_result.integrity_score = 0 <=> ~v_result.watermark_found

\* a watermark of another user was found
C14_Witness ==
    /\ v_pc = "returned"
    /\ v_result.watermark_found /\ ~v_result.user_verified
    /\ v_result.integrity_score = 5

\* C15: for a path with no file, verify_integrity returns file_exists,
\* watermark_found and user_verified False and integrity_score 0.0, and neither
\* opens the file nor calls the extractor.
C15_VerifyMissing ==
    (v_pc = "returned" /\ ~video_file.exists)
    => /\ v_result = verify_result(FALSE, FALSE, FALSE, 0)
       /\ x_pc = "idle"
       /\ ~x_cap_open
       /\ x_examined = <<>>

C15_Witness ==
    /\ v_pc = "returned" /\ ~video_file.exists
    /\ v_result.kind = "dict" /\ ~v_result.file_exists

\* C16 (as stated): extract_watermark on the output of a successful embed by
\* identity U, with an interval >= 1 and a non-empty input of frames large
\* enough for the payload, returns user_id U, the embedder's signature and
\* frame_number "0".
C16_ExtractEmbedded ==
    (/\ EmbedSucceeded /\ frame_interval >= 1 /\ Len(input.frames) >= 1
     /\ \A i \in 1..Len(input.frames) :
           input.frames[i].height * input.frames[i].width
              >= Len(watermark_binary(embed_payload(0)))
     /\ v_pc = "idle" /\ x_pc = "returned")
    => /\ x_result.kind = "dict"
       /\ x_result.user_id = self.user_id
       /\ x_result.signature = self.watermark_signature
       /\ x_result.frame_number = <<48>>

\* the frame at position pos of the file gives the extractor a payload that
\* extract_watermark returns
Succeeds(pos) == x_accepts(extract_lsb_watermark(video_file.frames[pos + 1]).ret)

\* C17 (as stated): extract_watermark examines frames one at a time, returns
\* at the first frame whose extraction succeeds, examining no later frame,
\* and otherwise stops after a fixed maximum number of frames, whatever the
\* length of the file (the maximum of the kit copy: max_samples).
C17_BoundedScan ==
    /\ x_frame_idx <= max_samples
    /\ Len(x_examined) <= max_samples
    /\ \A j \in 1..(Len(x_examined) - 1) :
          /\ x_examined[j] < x_examined[j + 1]
          /\ ~Succeeds(x_examined[j])
    /\ (x_pc = "returned" /\ x_result.kind = "dict")
          => (x_examined # <<>> /\ Succeeds(x_examined[Len(x_examined)]))

\* C18 (as stated): when embed or extract_watermark has returned, on whatever
\* path, every reader and writer it opened has been released.
C18_HandlesReleased ==
    /\ e_pc = "returned" => (~cap_open /\ ~out_open)
    /\ x_pc = "returned" => ~x_cap_open

\* C19 (as stated): no call reads or writes process-wide mutable state; in
\* particular the process-wide random generator of numpy is, after any calls,
\* in the state it was in before them.
C19_NoSharedState == np_random_state = [seeded |-> FALSE, seed |-> <<>>]

\* C20 (as stated): every frame embed writes is read back from the output
\* file with the pixel values that were written.
C20_LosslessOutput ==
    /\ out_file.exists => Len(out_file.frames) = Len(output)
    /\ \A k \in 1..Len(out_file.frames) :
          k <= Len(output) => out_file.frames[k] = output[k]

\* the sixteen hexadecimal digits
HexDigitSet == {HEXDIGITS[i] : i \in 1..16}

\* the signature of w is what _generate_signature gives now for its fields
Regenerates(w) ==
    generate_signature(w.user_id, w.method, w.strength) = w.watermark_signature

C22_ImmutableConfig == [][self' = self /\ Regenerates(self')]_vars

\* embed, extract_watermark and verify_integrity have run on the instance
C22_Witness ==
    /\ e_pc = "returned" /\ v_pc = "returned" /\ x_self = self
    /\ self = Watermarker(self.user_id, self.method, self.strength)

\* C23 (as stated): which candidate blocks the perceptual embedder blurs
\* varies with the block coordinates, and about one candidate block in eight
\* is selected: of two or more candidates of the frame not all are selected,
\* and of the 510 candidates of a 1080 x 1920 frame between a sixteenth and
\* three sixteenths are.
C23_SparseSelection ==
    Blurred
    => LET seed == pattern_seed(self.watermark_signature)
           candidates == candidate_blocks(frame.height, frame.width)
           selected == selected_blocks(frame.height, frame.width, seed)
           hd == Cardinality(candidate_blocks(1080, 1920))
           hd_selected == Cardinality(selected_blocks(1080, 1920, seed))
       IN  /\ Cardinality(candidates) >= 2 => selected # candidates
           /\ 16 * hd_selected >= hd
           /\ 16 * hd_selected <= 3 * hd

\* some pixel of f differs from its first pixel
NonUniform(f) == \E k \in 1..Len(f.px) : f.px[k] # f.px[1]

\* C24 (as stated): on a frame of non-uniform content with at least one
\* candidate block, _embed_motion_blur_watermark returns a frame of the same
\* shape in which some pixel value differs from the input, whatever the
\* signature.
C24_PerceptualChanges ==
    (/\ Blurred /\ NonUniform(frame)
     /\ candidate_blocks(frame.height, frame.width) # {})
    => /\ watermarked_frame.height = frame.height
       /\ watermarked_frame.width = frame.width
       /\ Len(watermarked_frame.px) = Len(frame.px)
       /\ watermarked_frame # frame

\* bit k (from 0) of the stream of s: bit 7 - k % 8 of character k div 8,
\* then the end marker
ExpectedBit(s, k) ==
    IF k < 8 * Len(s) THEN (s[(k \div 8) + 1] \div (2 ^ (7 - (k % 8)))) % 2
    ELSE END_MARKER[k - (8 * Len(s)) + 1]

\* C25 (as stated): the stream written for a watermark string s is 8 bits
\* per character, most significant first, then 1111111111111110, of length
\* 8*len(s)+16, and for every k below min(length, height*width) the LSB of
\* channel 0 of the output pixel at row k div W, column k mod W is bit k of
\* that stream.
C25_BitPlacement ==
    Embedded
    => LET s == watermark_data
           length == (8 * Len(s)) + 16
           W == watermarked_frame.width
       IN  /\ Len(watermark_binary(s)) = length
           /\ \A k \in 0..(Min(length, Pixels) - 1) :
                 watermarked_frame.px[PixelIndex(watermarked_frame, k \div W, k % W)][1] % 2
                     = ExpectedBit(s, k)

\* the characters of the complete 8-bit chunks in front of a marker ending at n
LeadingChunks(bits, n) ==
    [j \in 1..((n - 16) \div 8) |-> int_base2(SubSeq(bits, (8 * (j - 1)) + 1, 8 * j))]

\* the frame's first end marker ends after n bits and n - 16 is not a
\* multiple of 8
IncompleteChunk == FirstMarkerEnd(LSBs(Current)) > 16
                   /\ (FirstMarkerEnd(LSBs(Current)) - 16) % 8 # 0

\* C26: when the first end marker is matched after n bits and n-16 is not a
\* multiple of 8, the extractor raises nothing and decides on the text of the
\* floor((n-16)/8) leading complete chunks alone: the trailing bits are dropped.
C26_IncompleteChunk ==
    (Extracted /\ IncompleteChunk)
    => LET text == LeadingChunks(LSBs(Current), FirstMarkerEnd(LSBs(Current)))
           parts == split_colon(text)
       IN  /\ extracted.ret.kind \in {"None", "dict"}
           /\ extracted.ret.kind = "dict"
                 => /\ extracted.ret.user_id = parts[1]
                    /\ extracted.ret.signature = parts[2]
                    /\ variant = "kit" => extracted.ret.extracted_text = text
                    /\ variant = "main" => extracted.ret.frame_number = parts[3]
           /\ (variant = "kit" /\ Len(parts) >= 2) => extracted.ret.kind = "dict"
           /\ (variant = "main" /\ WellFormed(text)) => extracted.ret.kind = "dict"

\* a payload followed by five stray bits and the end marker was read back
C26_Witness ==
    /\ Extracted /\ IncompleteChunk
    /\ (FirstMarkerEnd(LSBs(Current)) - 16) % 8 = 5
    /\ variant = "main" /\ extracted.ret.kind = "dict"
    /\ extracted.ret.user_id = <<97>> /\ extracted.ret.signature = SIG

\* C27: _embed_lsb_watermark, _embed_motion_blur_watermark and
\* _extract_lsb_watermark leave the frame passed in with the pixel values it
\* had; the embedders write to the copy they return, the extractor writes to
\* no frame at all.
C27_InputNotMutated ==
    [][/\ frame' = frame
       /\ calls' = Append(calls, "extract") => watermarked_frame' = watermarked_frame]_vars

\* the perceptual embedder returned a frame that differs from its input, and
\* the extractor has read the returned frame
C27_Witness == Blurred /\ Extracted /\ watermarked_frame # frame

\* the file at hand has a first frame from which the LSB extractor reads a payload
CarriesLsbWatermark ==
    /\ video_file.openable /\ Len(video_file.frames) >= 1
    /\ extract_lsb_watermark(video_file.frames[1]).ret.kind = "dict"

RunningLoops == {t \in Threads : is_alive(t)}

\* this step is a call of start_monitoring made while monitoring is set
StartWhileMonitoring == n_calls' # n_calls /\ m_last' = "start" /\ monitoring

\* the refusal part of C29: such a call returns False and starts no thread
StartRefused ==
    [][StartWhileMonitoring => start_result' = "False" /\ loop_pc' = loop_pc]_vars

\* C29 (as stated): whatever the interleaving of start_monitoring and
\* stop_monitoring calls with the monitor threads' steps, at most one thread
\* is executing _monitor_loop, and start_monitoring called while monitoring
\* is True returns False and starts no thread.
C29_SingleMonitorThread ==
    /\ [](Cardinality(RunningLoops) <= 1)
    /\ StartRefused

\* stop_monitoring has returned and start_monitoring has not been called since
StopReturned == m_last = "stop" /\ m_pc = "idle"

\* the exit part of C30: every monitor loop exits, unless start is called again
LoopsExit == StopReturned ~> (RunningLoops = {} \/ ~StopReturned)

\* the quiet part of C30: no thread assigns detected_recorders or invokes the
\* callback in a step taken after stop_monitoring has returned
QuietAfterStop ==
    [][StopReturned
         => \A t \in Threads :
               loop_pc[t] \in {"assign", "callback"} => loop_pc'[t] = loop_pc[t]]_vars

\* C30 (as stated): once stop_monitoring has returned and no later
\* start_monitoring is called, the monitor loop eventually exits, and after
\* the return the callback is not invoked and detected_recorders is not
\* overwritten.
C30_StopTakesEffect == LoopsExit /\ QuietAfterStop

====
